---- MODULE Spec2Model ----
(***************************************************************************)
(* A model of os_net_config/sriov_config.py: the VF-count controller       *)
(* (get_numvfs / set_numvfs), the VF creation synchronizer                 *)
(* (_wait_for_vf_creation) fed by the udev monitor thread                  *)
(* (udev_event_handler), the udev rule reconciler (add_udev_rule), the PF  *)
(* mode controller (configure_switchdev and its uplink poll), the two      *)
(* orchestrators configure_sriov_pf and configure_sriov_vf, and main,      *)
(* which runs one after the other.                                         *)
(*                                                                         *)
(* Strings are sequences of one-character strings, so that substring       *)
(* tests, strip() and splitlines() are computed the way Python computes    *)
(* them.  External commands are recorded in a log in the order they are    *)
(* issued; each may fail.                                                  *)
(***************************************************************************)
EXTENDS Integers, Sequences, FiniteSets, TLC

VARIABLES
    numvfs,     \* sysfs: the sriov_numvfs attribute of every PF
    vf_queue,   \* the module's queue.Queue of udev events (FIFO)
    vf_to_pf,   \* the module's dict: VF name -> [device, pf]
    emitted,    \* how many events the monitor thread has pushed so far
    pc,         \* where the orchestrator thread is: "idle" or "wait"
    call,       \* the set_numvfs call in progress, or the last one finished
    rules_file, \* the udev rules file: [exists, data]
    last,       \* the last add_udev_rule call: arguments, branch, result
    run,        \* the configure_sriov_pf run: its locals and what it issued
    vfrun       \* the configure_sriov_vf run: its locals and what it issued

vars == <<numvfs, vf_queue, vf_to_pf, emitted, pc, call, rules_file, last,
          run, vfrun>>

numvfsVars == <<numvfs, vf_queue, vf_to_pf, emitted, pc, call>>

-----------------------------------------------------------------------------
(* Bounds of the model.                                                    *)

\* The largest VF count a PF is asked for or holds.
MaxVfs == 2
\* The number of udev events the monitor thread pushes in one run.
MaxEvents == 2
\* The number of add_udev_rule calls in one run.
MaxRuleCalls == 3

-----------------------------------------------------------------------------
(* Python strings.                                                         *)

NL == "\n"

\* The characters rule text is made of; NL is the only whitespace among them.
Chars == {"a", "b", NL}

Whitespace == {NL}

\* s[i..j] as Python slices it (1-based, inclusive, empty when j < i).
Slice(s, i, j) == IF j < i THEN <<>> ELSE SubSeq(s, i, j)

\* Python's `p in s` for strings.
IsSubstr(p, s) ==
    \E i \in 0..(Len(s) - Len(p)) : Slice(s, i + 1, i + Len(p)) = p

RECURSIVE LStrip(_)
LStrip(s) ==
    IF s # <<>> /\ Head(s) \in Whitespace THEN LStrip(Tail(s)) ELSE s

RECURSIVE RStrip(_)
RStrip(s) ==
    IF s # <<>> /\ s[Len(s)] \in Whitespace
    THEN RStrip(Slice(s, 1, Len(s) - 1))
    ELSE s

\* str.strip()
Strip(s) == RStrip(LStrip(s))

\* str.splitlines(): a line ends at every NL; a trailing NL opens no line.
RECURSIVE SplitFrom(_, _, _)
SplitFrom(s, i, cur) ==
    IF i > Len(s)
    THEN (IF cur = <<>> THEN <<>> ELSE <<cur>>)
    ELSE IF s[i] = NL
         THEN <<cur>> \o SplitFrom(s, i + 1, <<>>)
         ELSE SplitFrom(s, i + 1, Append(cur, s[i]))

SplitLines(s) == SplitFrom(s, 1, <<>>)

\* `x in lst` for a list of strings.
InList(x, lst) == \E i \in 1..Len(lst) : lst[i] = x

-----------------------------------------------------------------------------
(* The udev rule reconciler: add_udev_rule.                                *)

\* The pattern argument's default.
None == <<"None">>

\* The header line written into a new rules file, as one character.
Header == <<"#">>

MissingFile == [exists |-> FALSE, data |-> <<>>]

\* The text the rewrite loop writes for the lines from index i on.
RECURSIVE RewriteFrom(_, _, _, _)
RewriteFrom(udev_lines, i, pattern, udev_data) ==
    IF i > Len(udev_lines)
    THEN <<>>
    ELSE (IF IsSubstr(pattern, udev_lines[i])
          THEN udev_data \o <<NL>>
          ELSE udev_lines[i] \o <<NL>>)
         \o RewriteFrom(udev_lines, i + 1, pattern, udev_data)

\* A faulty variant of the rewrite loop: its else branch left out.
RewriteLinesNoElse(udev_lines, pattern, udev_data) ==
    LET Matches(line) == IsSubstr(pattern, line)
    IN  RewriteFrom(SelectSeq(udev_lines, Matches), 1, pattern, udev_data)

\* `for line in udev_lines: ...` of the replace branch.
RewriteLines(udev_lines, pattern, udev_data) ==
    RewriteFrom(udev_lines, 1, pattern, udev_data)

\* `if not pattern: pattern = udev_data`, after udev_data was stripped.
EffectivePattern(udev_data, pattern) ==
    IF pattern = None \/ pattern = <<>> THEN Strip(udev_data) ELSE pattern

\* A faulty variant of the function below: the append branch returns
\* before the rule database is reloaded.
AddUdevRuleResultAppendNoReload(f, raw_data, raw_pattern) ==
    LET udev_data == Strip(raw_data)
        pattern == EffectivePattern(raw_data, raw_pattern)
        udev_lines == SplitLines(f.data)
    IN  IF ~f.exists
        THEN [file |-> [exists |-> TRUE,
                        data |-> Header \o <<NL>> \o udev_data \o <<NL>>],
              branch |-> "create", changed |-> TRUE, reload |-> TRUE]
        ELSE IF IsSubstr(pattern, f.data)
        THEN IF InList(udev_data, udev_lines)
             THEN [file |-> f, branch |-> "present",
                   changed |-> FALSE, reload |-> FALSE]
             ELSE [file |-> [exists |-> TRUE,
                             data |-> RewriteLines(udev_lines, pattern,
                                                   udev_data)],
                   branch |-> "replace", changed |-> TRUE, reload |-> TRUE]
        ELSE [file |-> [exists |-> TRUE,
                        data |-> f.data \o udev_data \o <<NL>>],
              branch |-> "append", changed |-> TRUE, reload |-> FALSE]

\* add_udev_rule(udev_data, udev_file, pattern) on a file f: the file it
\* leaves, the branch it took, its return value and whether it reloaded the
\* rule database.
AddUdevRuleResult(f, raw_data, raw_pattern) ==
    LET udev_data == Strip(raw_data)
        pattern == EffectivePattern(raw_data, raw_pattern)
        udev_lines == SplitLines(f.data)
    IN  IF ~f.exists
        THEN [file |-> [exists |-> TRUE,
                        data |-> Header \o <<NL>> \o udev_data \o <<NL>>],
              branch |-> "create", changed |-> TRUE, reload |-> TRUE]
        ELSE IF IsSubstr(pattern, f.data)
        THEN IF InList(udev_data, udev_lines)
             THEN [file |-> f, branch |-> "present",
                   changed |-> FALSE, reload |-> FALSE]
             ELSE [file |-> [exists |-> TRUE,
                             data |-> RewriteLines(udev_lines, pattern,
                                                   udev_data)],
                   branch |-> "replace", changed |-> TRUE, reload |-> TRUE]
        ELSE [file |-> [exists |-> TRUE,
                        data |-> f.data \o udev_data \o <<NL>>],
              branch |-> "append", changed |-> TRUE, reload |-> TRUE]

\* The rule texts and patterns the calls are made with.
RuleData ==
    { <<>>, <<"a">>, <<"b">>, <<"a", "b">>, <<"b", "a">>, <<"a", "a">>,
      <<"a", NL>>, <<NL, "b">>, <<"a", NL, "b">>, <<"b", NL, "a">> }

RulePatterns == { None, <<>>, <<"a">>, <<"b">>, <<"a", "b">> }

NoCall ==
    [n |-> 0, data |-> <<>>, pattern |-> None, before |-> MissingFile,
     branch |-> "none", changed |-> FALSE, reload |-> FALSE,
     repeat |-> FALSE, prev_changed |-> FALSE]

AddUdevRule(udev_data, pattern) ==
    /\ last.n < MaxRuleCalls
    /\ LET r == AddUdevRuleResult(rules_file, udev_data, pattern)
       IN  /\ rules_file' = r.file
           /\ last' = [n |-> last.n + 1, data |-> udev_data,
                       pattern |-> pattern, before |-> rules_file,
                       branch |-> r.branch, changed |-> r.changed,
                       reload |-> r.reload,
                       repeat |-> (last.n > 0 /\ last.data = udev_data
                                   /\ last.pattern = pattern),
                       prev_changed |-> last.changed]
    /\ UNCHANGED <<numvfsVars, run, vfrun>>

-----------------------------------------------------------------------------
(* The kernel and the udev monitor thread.                                 *)

PFs == {"pf0", "pf1"}

\* The sys paths udev reports, each with its basename and the PF whose name
\* physfn/net lists ("none": neither physfn path variant is a directory).
Devices ==
    { [name |-> "vf0", physfn |-> "pf0"],
      [name |-> "vf1", physfn |-> "pf0"],
      [name |-> "vf0", physfn |-> "pf1"],
      [name |-> "vf1", physfn |-> "none"] }

\* os.path.basename(event["device"])
Basename(device) == device.name

\* _get_pf_path(device): the physfn/net directory, or "none".
GetPfPath(device) == device.physfn

\* os.listdir(pf_path)
ListDir(pf_path) == {pf_path}

\* udev_event_handler(action, device): the monitor thread puts one event.
UdevEventHandlerPut(device) ==
    /\ emitted < MaxEvents
    /\ vf_queue' = Append(vf_queue, [action |-> "add", device |-> device])
    /\ emitted' = emitted + 1
    /\ UNCHANGED <<numvfs, vf_to_pf, pc, call, rules_file, last, vfrun>>

\* The monitor thread reports any device at any time.
UdevEventHandler(device) ==
    /\ UdevEventHandlerPut(device)
    /\ UNCHANGED run

\* Something other than this program (the driver, an administrator, another
\* invocation started by a udev rule) changes a PF's VF count.
KernelChange(pf, v) ==
    /\ numvfs[pf] # v
    /\ numvfs' = [numvfs EXCEPT ![pf] = v]
    /\ UNCHANGED <<vf_queue, vf_to_pf, emitted, pc, call, rules_file, last,
                 run, vfrun>>

-----------------------------------------------------------------------------
(* get_numvfs and set_numvfs.                                              *)

\* What get_numvfs yields when the attribute cannot be read (it raises).
Unreadable == -1

\* A numvfs argument that is not an int.
NonInt == -2

Targets == (0..MaxVfs) \cup {NonInt}

\* get_numvfs(ifname): the attribute's value, or the read fails.
GetNumvfs(ifname) == {numvfs[ifname], Unreadable}

\* isinstance(numvfs, int)
IsInt(n) == n # NonInt

\* Faulty variants of the three guards of set_numvfs: the comparison with
\* the current count left out, the non-zero count not respected, the final
\* check left out, and the final check testing only for a non-zero count.
NeedsChangeAlways(n, curr_numvfs) == TRUE
BlocksChangeNever(curr_numvfs) == FALSE
VerifiedAlways(curr_numvfs, n) == TRUE
VerifiedNonZero(curr_numvfs, n) == curr_numvfs # 0

\* `if numvfs != curr_numvfs`
NeedsChange(n, curr_numvfs) == n # curr_numvfs

\* `if curr_numvfs != 0`: the count cannot be changed once it is set.
BlocksChange(curr_numvfs) == curr_numvfs # 0

\* `if curr_numvfs != numvfs: raise`, on the count read after the wait.
Verified(curr_numvfs, n) == curr_numvfs = n

NoNames == {}

InitCall ==
    [ifname |-> "pf0", numvfs |-> 0, curr |-> Unreadable,
     write |-> "none", synced |-> FALSE, vf_count |-> 0, timedout |-> FALSE,
     known0 |-> NoNames, matched |-> NoNames, added |-> NoNames,
     log |-> "none", again |-> FALSE,
     reread |-> Unreadable, result |-> "none", ret |-> Unreadable]

\* Whether set_numvfs(ifname, n), reading curr, repeats the call before it:
\* that call wrote the same target for the same PF from a zero count and
\* returned, and curr is the count it returned.
Repeats(ifname, n, curr) ==
    /\ call.write = "done" /\ call.result = "ok"
    /\ call.curr = 0 /\ call.numvfs > 0
    /\ ifname = call.ifname /\ n = call.numvfs /\ curr = call.ret

\* The tail of set_numvfs once _wait_for_vf_creation has returned: read the
\* count again and raise unless it is the target.
AfterWait(c, reread) ==
    IF reread # Unreadable /\ Verified(reread, c.numvfs)
    THEN [c EXCEPT !.reread = reread, !.result = "ok", !.ret = reread]
    ELSE [c EXCEPT !.reread = reread, !.result = "raise"]

\* set_numvfs(ifname, n) up to its return, its raise, or its entry into the
\* wait loop of _wait_for_vf_creation.
SetNumvfsCall(ifname, n) ==
    /\ pc = "idle"
    /\ \E curr \in GetNumvfs(ifname) :
         LET c0 == [InitCall EXCEPT !.ifname = ifname, !.numvfs = n,
                                    !.curr = curr,
                                    !.known0 = DOMAIN vf_to_pf,
                                    !.again = Repeats(ifname, n, curr),
                                    !.result = "running"]
             c1 == [c0 EXCEPT !.write = "done", !.synced = TRUE]
         IN  IF curr = Unreadable \/ ~IsInt(n)
             THEN /\ call' = [c0 EXCEPT !.result = "raise"]
                  /\ UNCHANGED <<numvfs, pc>>
             ELSE IF ~NeedsChange(n, curr) \/ BlocksChange(curr)
             THEN /\ call' = [c0 EXCEPT !.result = "ok", !.ret = curr]
                  /\ UNCHANGED <<numvfs, pc>>
             ELSE \/ \* the write fails with an IOError
                     /\ call' = [c0 EXCEPT !.write = "failed",
                                           !.result = "raise"]
                     /\ UNCHANGED <<numvfs, pc>>
                  \/ \* the write succeeds and the wait loop is entered
                     /\ 0 < n
                     /\ numvfs' = [numvfs EXCEPT ![ifname] = n]
                     /\ call' = c1
                     /\ pc' = "wait"
                  \/ \* `while vf_count < numvfs` is false at once
                     /\ ~(0 < n)
                     /\ numvfs' = [numvfs EXCEPT ![ifname] = n]
                     /\ \E reread \in {n, Unreadable} :
                            call' = AfterWait(c1, reread)
                     /\ pc' = "idle"
    /\ UNCHANGED <<vf_queue, vf_to_pf, emitted>>

\* set_numvfs called on its own, as main does for the --numvfs option.
SetNumvfs(ifname, n) ==
    /\ SetNumvfsCall(ifname, n)
    /\ UNCHANGED <<rules_file, last, run, vfrun>>

-----------------------------------------------------------------------------
(* _wait_for_vf_creation.                                                  *)

\* Faulty variants of the test below: the PF not compared, and the map not
\* consulted.
IsNewVfAnyPf(vf_name, pf_name, pf_nic) == vf_name \notin DOMAIN vf_to_pf
IsNewVfAgain(vf_name, pf_name, pf_nic) == pf_name \in pf_nic

\* `if vf_name not in vf_to_pf and pf_name in pf_nic`
IsNewVf(vf_name, pf_name, pf_nic) ==
    vf_name \notin DOMAIN vf_to_pf /\ pf_name \in pf_nic

\* vf_to_pf[vf_name] = {'device': ..., 'pf': pf_name}
Record(map, vf_name, device, pf_name) ==
    [v \in DOMAIN map \cup {vf_name} |->
        IF v = vf_name THEN [device |-> device, pf |-> pf_name] ELSE map[v]]

\* The body of the wait loop for one received event: the map and the count
\* it leaves, and which of its branches logged.
HandleEvent(event, pf_name, vf_count) ==
    LET vf_name == Basename(event.device)
        pf_path == GetPfPath(event.device)
    IN  IF pf_path = "none"
        THEN [map |-> vf_to_pf, vf_count |-> vf_count, log |-> "no_pf"]
        ELSE IF IsNewVf(vf_name, pf_name, ListDir(pf_path))
        THEN [map |-> Record(vf_to_pf, vf_name, event.device, pf_name),
              vf_count |-> vf_count + 1, log |-> "created"]
        ELSE IF vf_name \in DOMAIN vf_to_pf
        THEN [map |-> vf_to_pf, vf_count |-> vf_count,
              log |-> "already_created"]
        ELSE [map |-> vf_to_pf, vf_count |-> vf_count, log |-> "other_pf"]

\* A faulty variant of the queue below: get returns the newest event.
QueueGetNewest(q) ==
    [event |-> q[Len(q)], rest |-> SubSeq(q, 1, Len(q) - 1)]

\* queue.Queue.get on a queue that is not empty: the oldest event, and the
\* queue without it.
QueueGet(q) == [event |-> Head(q), rest |-> Tail(q)]

\* vf_queue.get(True, 5) returns an event: one pass of the loop, and the
\* rest of set_numvfs when the pass ends the loop.
WaitReceiveCall ==
    /\ pc = "wait"
    /\ call.vf_count < call.numvfs
    /\ vf_queue # <<>>
    /\ LET event == QueueGet(vf_queue).event
           h == HandleEvent(event, call.ifname, call.vf_count)
           c1 == [call EXCEPT
                    !.vf_count = h.vf_count,
                    !.log = h.log,
                    !.matched = IF GetPfPath(event.device) = call.ifname
                                THEN @ \cup {Basename(event.device)} ELSE @,
                    !.added = IF h.map # vf_to_pf
                              THEN @ \cup {Basename(event.device)} ELSE @]
       IN  /\ vf_queue' = QueueGet(vf_queue).rest
           /\ vf_to_pf' = h.map
           /\ IF h.vf_count < call.numvfs
              THEN /\ call' = c1
                   /\ pc' = "wait"
              ELSE /\ \E reread \in GetNumvfs(call.ifname) :
                          call' = AfterWait(c1, reread)
                   /\ pc' = "idle"
    /\ UNCHANGED <<numvfs, emitted>>

WaitReceive ==
    /\ WaitReceiveCall
    /\ UNCHANGED <<rules_file, last, run, vfrun>>

\* A faulty variant of the handler below: the loop goes on after a timeout.
WaitTimeoutStay(c) == [next |-> "wait", c |-> c]

\* `except queue.Empty: return`
WaitTimeoutReturn(c) == [next |-> "idle", c |-> [c EXCEPT !.timedout = TRUE]]

\* vf_queue.get(True, 5) raises queue.Empty: the wait returns, and set_numvfs
\* goes on to read the count again.
WaitTimeout ==
    /\ pc = "wait"
    /\ call.vf_count < call.numvfs
    /\ vf_queue = <<>>
    /\ LET t == WaitTimeoutReturn(call)
       IN  /\ pc' = t.next
           /\ IF t.next = "idle"
              THEN \E reread \in GetNumvfs(call.ifname) :
                      call' = AfterWait(t.c, reread)
              ELSE call' = t.c
    /\ UNCHANGED <<numvfs, vf_queue, vf_to_pf, emitted, rules_file, last,
                 run, vfrun>>

-----------------------------------------------------------------------------
(* Commands and rule upserts as configure_sriov_pf issues them.  A run     *)
(* keeps its locals in a record st: the commands issued so far (cmds), the *)
(* two rules files, trigger_udev_rule, dpdk_vfs_pcis_list, and whether an  *)
(* exception is propagating (raised).  Every operator below leaves st      *)
(* alone once st.raised holds: the code after a raise is not executed.     *)

MAX_RETRIES == 10

\* One issued command: what it was, for which PF, and whether it succeeded
\* (for a rule upsert: whether it returned True).
Cmd(c, pf, ok) == [cmd |-> c, pf |-> pf, ok |-> ok]

\* processutils.execute(...) inside try/except ... raise: the command named
\* c fails exactly when the host makes it fail (c \in fails).
Issue(st, c, pf, fails) ==
    IF st.raised THEN st
    ELSE [st EXCEPT !.cmds = Append(@, Cmd(c, pf, c \notin fails)),
                    !.raised = c \in fails]

\* The same inside try/except that only logs (configure_flow_steering).
IssueLogged(st, c, pf, fails) ==
    IF st.raised THEN st
    ELSE [st EXCEPT !.cmds = Append(@, Cmd(c, pf, c \notin fails))]

\* A faulty variant of the loop below: one read too few.
RECURSIVE PollShort(_, _, _, _)
PollShort(st, pf_name, i, ready) ==
    IF i >= MAX_RETRIES - 1
    THEN [st EXCEPT !.raised = TRUE]
    ELSE IF ready = i + 1
    THEN [st EXCEPT !.cmds = Append(@, Cmd("read_phys_switch_id",
                                            pf_name, TRUE))]
    ELSE PollShort([st EXCEPT !.cmds = Append(@, Cmd("read_phys_switch_id",
                                                      pf_name, FALSE))],
                   pf_name, i + 1, ready)

\* `for i in range(MAX_RETRIES): if get_file_data(path): break ... else:
\* raise RuntimeError`, from iteration i on.  The kernel populates
\* phys_switch_id in time for the read numbered ready (0: never).
RECURSIVE Poll(_, _, _, _)
Poll(st, pf_name, i, ready) ==
    IF i >= MAX_RETRIES
    THEN [st EXCEPT !.raised = TRUE]
    ELSE IF ready = i + 1
    THEN [st EXCEPT !.cmds = Append(@, Cmd("read_phys_switch_id",
                                            pf_name, TRUE))]
    ELSE Poll([st EXCEPT !.cmds = Append(@, Cmd("read_phys_switch_id",
                                                 pf_name, FALSE))],
              pf_name, i + 1, ready)

\* _wait_for_uplink_rep_creation(pf_name)
WaitForUplinkRepCreation(st, pf_name, ready) ==
    IF st.raised THEN st ELSE Poll(st, pf_name, 0, ready)

\* get_pf_device_id(pf_name): pf0 is a ConnectX-4 Lx, pf1 is not.
GetPfDeviceId(pf_name) == IF pf_name = "pf0" THEN "0x1015" ELSE "0x1017"

\* configure_switchdev(pf_name)
ConfigureSwitchdev(st, pf_name, fails, ready) ==
    LET pf_device_id == GetPfDeviceId(pf_name)
        s1 == IF pf_device_id = "0x1013" \/ pf_device_id = "0x1015"
              THEN Issue(st, "eswitch_inline_mode", pf_name, fails)
              ELSE st
        s2 == Issue(s1, "eswitch_mode_switchdev", pf_name, fails)
        s3 == WaitForUplinkRepCreation(s2, pf_name, ready)
    IN  Issue(s3, "hw_tc_offload", pf_name, fails)

-----------------------------------------------------------------------------
(* The rule texts of configure_sriov_pf, abbreviated: one letter for the   *)
(* fixed part of a line, then what the line is formatted with.  No line is *)
(* a substring of another, as with the real texts.                         *)

PfId(pf_name) == IF pf_name = "pf0" THEN "0" ELSE "1"

\* "%d" % n for one digit
Digit(n) == <<"0", "1", "2", "3", "4", "5", "6", "7", "8", "9">>[n + 1]

\* add_udev_rule_to_unmanage_vf_representors_by_nm: udev_data_line
UnmanageRule == <<"U">>

\* add_udev_rule_for_sriov_pf: udev_data_line
PfRule(pf_name) == <<"P", PfId(pf_name)>>

\* add_udev_rule_for_vf_representors: udev_data_line
VfRepRule(pf_name) == <<"R", PfId(pf_name)>>

\* add_udev_rule_for_legacy_sriov_pf: udev_line and pattern
LegacyRule(pf_name, n) == <<"L", PfId(pf_name), "n", Digit(n)>>
LegacyPattern(pf_name) == <<"L", PfId(pf_name), "n">>

\* The VF names the kernel gives out, in the order the loop of
\* add_udev_rule_for_vdpa_representors meets them.
VfOrder == <<"vf0", "vf1", "vf2">>

VfChar(vf) == IF vf = "vf0" THEN "0" ELSE IF vf = "vf1" THEN "1" ELSE "2"

\* add_udev_rule_for_vdpa_representors: udev_lines, one line per entry of
\* vf_to_pf, each ended by a newline.
RECURSIVE VdpaLinesFrom(_, _)
VdpaLinesFrom(map, i) ==
    IF i > Len(VfOrder)
    THEN <<>>
    ELSE (IF VfOrder[i] \in DOMAIN map
          THEN <<"V", VfChar(VfOrder[i]), NL>>
          ELSE <<>>)
         \o VdpaLinesFrom(map, i + 1)

VdpaLines(map) == VdpaLinesFrom(map, 1)

\* add_udev_rule(udev_data, udev_file, pattern) as one of the five callers
\* calls it: which is "legacy" for _UDEV_LEGACY_RULE_FILE and "rules" for
\* _UDEV_RULE_FILE.  st.ret is the value the call returns; st.changed
\* collects the callers whose call returned True.
Upsert(st, c, pf_name, which, udev_data, pattern, fails) ==
    IF st.raised THEN st
    ELSE LET f == IF which = "legacy" THEN st.legacy ELSE st.file
             r == AddUdevRuleResult(f, udev_data, pattern)
             s1 == [st EXCEPT
                      !.file = IF which = "legacy" THEN @ ELSE r.file,
                      !.legacy = IF which = "legacy" THEN r.file ELSE @,
                      !.cmds = Append(@, Cmd(c, pf_name, r.changed))]
             s2 == IF r.reload
                   THEN Issue(s1, "udev_reload", pf_name, fails)
                   ELSE s1
         IN  IF s2.raised THEN s2
             ELSE [s2 EXCEPT !.ret = r.changed,
                             !.changed = IF r.changed THEN @ \cup {c} ELSE @]

\* `trigger_udev_rule = add_udev_rule_for_...(...) or trigger_udev_rule`
OrTrigger(st) ==
    IF st.raised THEN st ELSE [st EXCEPT !.trigger = st.ret \/ @]

-----------------------------------------------------------------------------
(* configure_sriov_pf: the parts of its loop body before and after the     *)
(* call of set_numvfs.                                                     *)

\* common.is_mellanox_interface(name)
IsMellanoxInterface(pf_name) == pf_name \in run.mlnx

\* is_partitioned_pf(dev_name): a VF descriptor of the map names the PF.
IsPartitionedPf(dev_name) == dev_name \in run.partitioned

\* get_vf_pcis_list(pf_name): one PCI address per virtfn link of the PF.
GetVfPcisList(pf_name) ==
    [k \in 1..numvfs[pf_name] |-> [pf |-> pf_name, vf |-> k]]

\* get_vdpa_vhost_devices(): no vDPA device exists before the run.
VdpaDevices == {}

\* _pf_interface_up(pf_device)
PfInterfaceUp(st, item, fails) ==
    LET s1 == IF item.promisc # "absent"
              THEN Issue(st, "link_promisc", item.name, fails)
              ELSE st
    IN  Issue(s1, "link_up", item.name, fails)

\* Faulty variants of the two tests below: the vDPA setup is never done
\* ahead of set_numvfs, the link mode is not looked at, and the setup ahead
\* of set_numvfs is done without vDPA too.
EntersSwitchdevEarlyNever(item) == FALSE
EntersSwitchdevLateAnyMode(item) == IsMellanoxInterface(item.name)
EntersSwitchdevEarlyAnyPf(item) == IsMellanoxInterface(item.name)

\* `if vdpa and is_mlnx`, before set_numvfs
EntersSwitchdevEarly(item) == item.vdpa /\ IsMellanoxInterface(item.name)

\* `if item.get('link_mode') == "switchdev" and is_mlnx`, after set_numvfs
EntersSwitchdevLate(item) ==
    item.link_mode = "switchdev" /\ IsMellanoxInterface(item.name)

\* Lines 319-333: from _pf_interface_up to the call of set_numvfs.
PfBefore(st, item, fails, ready) ==
    LET s1 == PfInterfaceUp(st, item, fails)
        s2 == IF item.link_mode = "legacy" /\ ~IsPartitionedPf(item.name)
              THEN Upsert(s1, "rule_legacy", item.name, "legacy",
                          LegacyRule(item.name, item.numvfs),
                          LegacyPattern(item.name), fails)
              ELSE s1
    IN  IF EntersSwitchdevEarly(item)
        THEN ConfigureSwitchdev(s2, item.name, fails, ready)
        ELSE s2

\* `for vf_pci in vf_pcis_list`, from index i on.
RECURSIVE ForVfPcis(_, _, _, _, _)
ForVfPcis(st, item, vf_pcis_list, i, fails) ==
    IF i > Len(vf_pcis_list)
    THEN st
    ELSE ForVfPcis(
           IF ~item.vdpa
           THEN Issue(st, "driver_unbind", item.name, fails)
           ELSE IF vf_pcis_list[i] \notin VdpaDevices
           THEN Issue(st, "vdpa_dev_add", item.name, fails)
           ELSE st,
           item, vf_pcis_list, i + 1, fails)

\* Lines 336-388: from the return of set_numvfs to the end of the loop body.
PfAfter(st, item, fails, ready) ==
    LET vf_pcis_list == GetVfPcisList(item.name)
        s1 == ForVfPcis(st, item, vf_pcis_list, 1, fails)
        s2 == IF item.vdpa
              THEN Issue(s1, "restorecon", item.name, fails)
              ELSE s1
        s3 == Upsert(s2, "rule_unmanage", item.name, "rules",
                     UnmanageRule, None, fails)
        s4 == OrTrigger(Upsert(s3, "rule_pf", item.name, "rules",
                               PfRule(item.name), None, fails))
        s5 == OrTrigger(Upsert(s4, "rule_vf_rep", item.name, "rules",
                               VfRepRule(item.name), None, fails))
        s6 == IF s5.raised THEN s5
              ELSE [s5 EXCEPT !.dpdk = @ \o vf_pcis_list]
        s7 == IssueLogged(s6, "flow_steering", item.name, fails)
        s8 == IF ~item.vdpa
              THEN ConfigureSwitchdev(s7, item.name, fails, ready)
              ELSE OrTrigger(Upsert(s5, "rule_vdpa_rep", item.name, "rules",
                                    VdpaLines(vf_to_pf), None, fails))
        s9 == IF EntersSwitchdevLate(item) THEN s8 ELSE st
    IN  IF run.cli THEN Issue(s9, "ifup", item.name, fails) ELSE s9

-----------------------------------------------------------------------------
(* configure_sriov_pf as a process: it starts the monitor, walks the map,  *)
(* blocks in set_numvfs while the monitor thread pushes events, and ends.  *)

NoRun ==
    [step |-> "none", map |-> <<>>, i |-> 0, cli |-> FALSE,
     restart |-> FALSE, mlnx |-> {}, partitioned |-> {},
     observer |-> "none", pending |-> <<>>, vdpa |-> "unbound",
     cmds |-> <<>>, legacy |-> MissingFile, trigger |-> FALSE,
     dpdk |-> <<>>, changed |-> {},
     pushed |-> <<>>, received |-> <<>>, w0 |-> 0, w1 |-> 0,
     first |-> FALSE,
     numvfs0 |-> [pf \in PFs |-> 0],
     files0 |-> <<MissingFile, MissingFile>>]

\* run.numvfs0 and run.files0 keep the VF counts and the two rules files
\* (primary, legacy) the run found.

\* The locals of the run as the operators above take them.
StOf ==
    [cmds |-> run.cmds, file |-> rules_file, legacy |-> run.legacy,
     trigger |-> run.trigger, dpdk |-> run.dpdk, changed |-> run.changed,
     ret |-> FALSE, raised |-> FALSE]

\* The run after a stretch of code that left st: at step next unless an
\* exception left the function.
Commit(st, next) ==
    /\ rules_file' = st.file
    /\ run' = [next EXCEPT !.cmds = st.cmds, !.legacy = st.legacy,
                           !.trigger = st.trigger, !.dpdk = st.dpdk,
                           !.changed = st.changed,
                           !.step = IF st.raised THEN "raised" ELSE @]

\* The loop of line 314 moves to the next item, or is over.
NextItem(r) ==
    [r EXCEPT !.i = @ + 1,
              !.step = IF r.i < Len(r.map) THEN "loop" ELSE "finish"]

\* The devices the kernel creates, and udev announces, when n VFs are
\* enabled on a PF.
VfDevices(pf_name, n) ==
    LET all == IF pf_name = "pf0"
               THEN << [name |-> "vf0", physfn |-> "pf0"],
                       [name |-> "vf1", physfn |-> "pf0"] >>
               ELSE << [name |-> "vf2", physfn |-> "pf1"] >>
    IN  SubSeq(all, 1, IF n < Len(all) THEN n ELSE Len(all))

\* Lines 301-312: the monitor is started, and the vDPA modules are loaded
\* and the vDPA devices listed when some descriptor asks for vDPA.
PfStart(fails) ==
    /\ run.step = "entry"
    /\ LET s0 == [StOf EXCEPT !.cmds = Append(@, Cmd("monitor_start",
                                                      "all", TRUE))]
           s1 == IF \E k \in 1..Len(run.map) : run.map[k].vdpa
                 THEN Issue(Issue(s0, "load_kmods", "all", fails),
                            "vdpa_dev_list", "all", fails)
                 ELSE s0
       IN  Commit(s1, [run EXCEPT !.observer = "started", !.i = 1,
                                  !.step = "loop"])
    /\ UNCHANGED <<numvfsVars, last, vfrun>>

\* A faulty variant of the test below: no PF counts as configured.
PfConfigureStatusNever(pf_device, curr_numvfs) == FALSE

\* pf_configure_status(pf_device), get_numvfs having read curr_numvfs
PfConfigureStatus(pf_device, curr_numvfs) ==
    pf_device.numvfs = curr_numvfs

\* Lines 315-334: one item of the map, up to the return, the raise or the
\* wait of its set_numvfs call.
PfBegin(fails, ready) ==
    /\ run.step = "loop"
    /\ pc = "idle"
    /\ LET item == run.map[run.i]
       IN  \E curr \in GetNumvfs(item.name) :
             IF curr = Unreadable
             THEN /\ run' = [run EXCEPT !.step = "raised"]
                  /\ UNCHANGED <<numvfsVars, rules_file>>
             ELSE IF PfConfigureStatus(item, curr)
             THEN /\ run' = NextItem(run)
                  /\ UNCHANGED <<numvfsVars, rules_file>>
             ELSE LET st == PfBefore(StOf, item, fails, ready)
                  IN  IF st.raised
                      THEN /\ Commit(st, run)
                           /\ UNCHANGED numvfsVars
                      ELSE /\ SetNumvfsCall(item.name, item.numvfs)
                           /\ Commit(
                                [st EXCEPT !.cmds =
                                   IF call'.write = "none" THEN @
                                   ELSE Append(@, Cmd("write_numvfs",
                                                      item.name,
                                                      call'.write = "done"))],
                                [run EXCEPT
                                   !.step = "numvfs",
                                   !.vdpa = item.vdpa,
                                   !.pending =
                                      IF call'.write = "done"
                                      THEN @ \o VfDevices(item.name,
                                                          item.numvfs)
                                      ELSE @])
    /\ UNCHANGED <<last, vfrun>>

\* Lines 334-388: set_numvfs has returned or raised; the rest of the item.
PfEnd(fails, ready) ==
    /\ run.step = "numvfs"
    /\ pc = "idle"
    /\ IF call.result = "raise"
       THEN /\ run' = [run EXCEPT !.step = "raised"]
            /\ UNCHANGED rules_file
       ELSE Commit(PfAfter(StOf, run.map[run.i], fails, ready),
                   NextItem(run))
    /\ UNCHANGED <<numvfsVars, last, vfrun>>

\* restart_ovs_and_pfs_netdevs(): the loop over the map, from item k on.
RECURSIVE RestartPfsFrom(_, _, _)
RestartPfsFrom(st, k, fails) ==
    IF k > Len(run.map)
    THEN st
    ELSE RestartPfsFrom(
           Issue(Issue(st, "restart_ifdown", run.map[k].name, fails),
                 "restart_ifup", run.map[k].name, fails),
           k + 1, fails)

RestartOvsAndPfsNetdevs(st, fails) ==
    RestartPfsFrom(Issue(st, "restart_openvswitch", "all", fails), 1, fails)

\* A faulty variant of the test below: the flag is not looked at.
TriggersAlways(st) == TRUE

\* `if trigger_udev_rule`
Triggers(st) == st.trigger

\* Lines 390-404: the loop is over.
PfFinish(fails) ==
    /\ run.step = "finish"
    /\ LET s0 == StOf
           s1 == IF run.dpdk # <<>> /\ ~run.vdpa
                 THEN IF ~run.cli
                      THEN Issue(s0, "update_sriov_bind_pcis_map", "all",
                                 fails)
                      ELSE Issue(Issue(s0, "configure_sriov_bind_service",
                                       "all", fails),
                                 "bind_vfs", "all", fails)
                 ELSE s0
           s2 == IF Triggers(s1)
                 THEN Issue(s1, "udev_trigger", "all", fails)
                 ELSE s1
           s3 == IF s2.raised THEN s2
                 ELSE [s2 EXCEPT !.cmds = Append(@, Cmd("monitor_stop",
                                                        "all", TRUE))]
           s4 == IF run.restart
                 THEN RestartOvsAndPfsNetdevs(s3, fails)
                 ELSE s3
       IN  Commit(s4, [run EXCEPT
                         !.observer = IF s2.raised THEN @ ELSE "stopped",
                         !.step = "done"])
    /\ UNCHANGED <<numvfsVars, last, vfrun>>

\* The monitor thread, while the observer runs, reports the next device the
\* kernel has created.
MonitorPush ==
    /\ run.observer = "started"
    /\ run.pending # <<>>
    /\ UdevEventHandlerPut(Head(run.pending))
    /\ run' = [run EXCEPT !.pending = Tail(@)]

-----------------------------------------------------------------------------
(* configure_sriov_vf.                                                     *)

\* A rate key that the descriptor does not have.
Absent == -1

NoVfRun == [step |-> "none", map |-> <<>>, i |-> 0, cmds |-> <<>>]

\* One `ip link set dev <pf> vf <vfid> ...` command (or the driver
\* override): its option, the index of the descriptor, the rate it sets
\* (Absent for the other options), and whether it succeeded.
VfCmd(c, k, value, ok) == [cmd |-> c, item |-> k, value |-> value, ok |-> ok]

\* run_ip_config_cmd(*cmd): logs and re-raises.
RunIpConfigCmd(st, c, k, value, fails) ==
    IF st.raised THEN st
    ELSE [st EXCEPT !.cmds = Append(@, VfCmd(c, k, value, c \notin fails)),
                    !.raised = c \in fails]

\* run_ip_config_cmd_safe(raise_error, *cmd)
RunIpConfigCmdSafe(st, raise_error, c, k, value, fails) ==
    IF st.raised THEN st
    ELSE [st EXCEPT !.cmds = Append(@, VfCmd(c, k, value, c \notin fails)),
                    !.raised = c \in fails /\ raise_error]

\* `if 'key' in item: run_ip_config_cmd(...)`
IfIn(st, item, key, c, k, fails) ==
    IF key \in item.fields
    THEN RunIpConfigCmd(st, c, k, Absent, fails)
    ELSE st

\* `if item[rate] == 0: raise_error = False`
ClearIfZero(st, rate) ==
    IF rate = 0 THEN [st EXCEPT !.raise_error = FALSE] ELSE st

\* Lines 690-730: the loop body for the VF descriptor numbered k.
ConfigureVfItem(st, item, k, fails) ==
    LET s0 == [st EXCEPT !.raise_error = TRUE]
        s1 == IfIn(s0, item, "macaddr", "mac", k, fails)
        s2 == IfIn(s1, item, "vlan_id", "vlan", k, fails)
        s3 == IF item.max_tx_rate # Absent
              THEN LET s == ClearIfZero(s2, item.max_tx_rate)
                   IN  RunIpConfigCmdSafe(s, s.raise_error, "max_tx_rate",
                                          k, item.max_tx_rate, fails)
              ELSE s2
        s4 == IF item.min_tx_rate # Absent
              THEN LET s == ClearIfZero(s3, item.min_tx_rate)
                   IN  RunIpConfigCmdSafe(s, s.raise_error, "min_tx_rate",
                                          k, item.min_tx_rate, fails)
              ELSE s3
        s5 == IfIn(s4, item, "spoofcheck", "spoofchk", k, fails)
        s6 == IfIn(s5, item, "state", "state", k, fails)
        s7 == IfIn(s6, item, "trust", "trust", k, fails)
        s8 == IfIn(s7, item, "promisc", "promisc", k, fails)
    IN  IfIn(s8, item, "driver", "driver_override", k, fails)

\* One pass of `for item in sriov_map` over a VF descriptor.
VfItem(fails) ==
    /\ vfrun.step = "loop"
    /\ LET st == ConfigureVfItem([cmds |-> vfrun.cmds, raised |-> FALSE,
                                  raise_error |-> TRUE],
                                 vfrun.map[vfrun.i], vfrun.i, fails)
       IN  vfrun' = [vfrun EXCEPT
                       !.cmds = st.cmds,
                       !.i = IF st.raised THEN @ ELSE @ + 1,
                       !.step = IF st.raised THEN "raised"
                                ELSE IF vfrun.i < Len(vfrun.map) THEN "loop"
                                ELSE "done"]
    /\ UNCHANGED <<numvfsVars, rules_file, last, run>>

-----------------------------------------------------------------------------
(* The queue between the monitor thread and set_numvfs, with its history:  *)
(* run.pushed and run.received list the events put and got so far, run.w0  *)
(* is the number of events put when the current call wrote the VF count,   *)
(* and run.w1 the number put when its wait received for the first time     *)
(* (run.first: it has received).                                           *)

\* set_numvfs called while the monitor runs (line 334, after line 302).
QSetNumvfs(ifname, n) ==
    /\ SetNumvfsCall(ifname, n)
    /\ run' = [run EXCEPT !.w0 = Len(run.pushed), !.w1 = Len(run.pushed),
                          !.first = FALSE]
    /\ UNCHANGED <<rules_file, last, vfrun>>

\* The monitor thread puts an event.
QPut(device) ==
    /\ UdevEventHandlerPut(device)
    /\ run' = [run EXCEPT
                 !.pushed = Append(@, [action |-> "add", device |-> device])]

\* The wait loop gets an event.
QGet ==
    /\ WaitReceiveCall
    /\ run' = [run EXCEPT
                 !.received = Append(@, QueueGet(vf_queue).event),
                 !.w1 = IF run.first THEN @ ELSE Len(run.pushed),
                 !.first = TRUE]
    /\ UNCHANGED <<rules_file, last, vfrun>>

\* configure_switchdev(pf_name) on its own, once for a PF, as long as no
\* call has raised.
SwitchdevCall(pf_name, fails, ready) ==
    /\ run.step # "raised"
    /\ \A k \in 1..Len(run.cmds) : run.cmds[k].pf # pf_name
    /\ Commit(ConfigureSwitchdev(StOf, pf_name, fails, ready),
              [run EXCEPT !.step = "done"])
    /\ UNCHANGED <<numvfsVars, last, vfrun>>

\* A faulty variant of the test below: main goes on after an exception.
ReturnedOrRaised(r) == r.step \in {"done", "raised"}

\* configure_sriov_pf() has returned: main reaches its next statement.
Returned(r) == r.step = "done"

\* main, lines 780-782: configure_sriov_vf() is called once
\* configure_sriov_pf() has returned; it reads the VF descriptors of the
\* map.
MainConfigureVf(map) ==
    /\ Returned(run)
    /\ vfrun.step = "none"
    /\ vfrun' = [NoVfRun EXCEPT !.step = "loop", !.map = map, !.i = 1]
    /\ UNCHANGED <<numvfsVars, rules_file, last, run>>

-----------------------------------------------------------------------------
(* Specifications.                                                         *)

EmptyMap == [v \in NoNames |-> [device |-> "none", pf |-> "none"]]

\* The VF-count controller and the synchronizer, with the monitor running.
InitNumvfs ==
    /\ numvfs \in [PFs -> 0..MaxVfs]
    /\ vf_queue = <<>>
    /\ vf_to_pf = EmptyMap
    /\ emitted = 0
    /\ pc = "idle"
    /\ call = InitCall
    /\ rules_file = MissingFile
    /\ last = NoCall
    /\ run = NoRun
    /\ vfrun = NoVfRun

NextNumvfs ==
    \/ \E ifname \in PFs, n \in Targets : SetNumvfs(ifname, n)
    \/ WaitReceive
    \/ WaitTimeout
    \/ \E device \in Devices : UdevEventHandler(device)
    \/ \E pf \in PFs, v \in 0..MaxVfs : KernelChange(pf, v)

SpecNumvfs == InitNumvfs /\ [][NextNumvfs]_vars

\* The orchestrator thread runs: a blocked queue.get returns an event or
\* raises queue.Empty after its five seconds.
SpecNumvfsFair == SpecNumvfs /\ WF_vars(WaitReceive \/ WaitTimeout)

\* The rule reconciler on one rules file, from a missing file.
InitUdev ==
    /\ numvfs = [pf \in PFs |-> 0]
    /\ vf_queue = <<>>
    /\ vf_to_pf = EmptyMap
    /\ emitted = 0
    /\ pc = "idle"
    /\ call = InitCall
    /\ rules_file = MissingFile
    /\ last = NoCall
    /\ run = NoRun
    /\ vfrun = NoVfRun

NextUdev ==
    \E udev_data \in RuleData, pattern \in RulePatterns :
        AddUdevRule(udev_data, pattern)

SpecUdev == InitUdev /\ [][NextUdev]_vars

\* The descriptors a PF can have in the sriov_map.
PfTarget(pf_name) == IF pf_name = "pf0" THEN 2 ELSE 1

PfItems(pf_name) ==
    [name : {pf_name}, numvfs : {PfTarget(pf_name)},
     link_mode : {"legacy", "switchdev"}, vdpa : BOOLEAN,
     promisc : {IF pf_name = "pf1" THEN "on" ELSE "absent"}]

\* The rules files an earlier run for the same PFs left behind.
OldRulesFile ==
    [exists |-> TRUE,
     data |-> Header \o <<NL>> \o UnmanageRule \o <<NL>>
              \o PfRule("pf0") \o <<NL>> \o VfRepRule("pf0") \o <<NL>>
              \o PfRule("pf1") \o <<NL>> \o VfRepRule("pf1") \o <<NL>>]

OldLegacyFile ==
    [exists |-> TRUE,
     data |-> Header \o <<NL>>
              \o LegacyRule("pf0", PfTarget("pf0")) \o <<NL>>
              \o LegacyRule("pf1", PfTarget("pf1")) \o <<NL>>]

\* The hosts a run starts on.  With one PF in the map: any descriptor, any
\* VF count of the PF, a Mellanox NIC or another, with or without a VF
\* descriptor naming the PF.  With two PFs: Mellanox NICs, the second in
\* switchdev mode, the first converged or not.
OnePfHosts ==
    [map : { <<a>> : a \in PfItems("pf0") },
     numvfs : { [pf \in PFs |-> IF pf = "pf0" THEN v ELSE 0] : v \in 0..2 },
     mlnx : { {"pf0", "pf1"}, {"pf1"} },
     partitioned : { {}, {"pf0"} },
     files : { <<MissingFile, MissingFile>>,
               <<OldRulesFile, OldLegacyFile>> },
     cli : BOOLEAN]

TwoPfHosts ==
    [map : { <<a, b>> : a \in PfItems("pf0"),
                        b \in { c \in PfItems("pf1") :
                                  c.link_mode = "switchdev" } },
     numvfs : { [pf \in PFs |-> IF pf = "pf0" THEN v ELSE 0] : v \in {0, 2} },
     mlnx : { {"pf0", "pf1"} },
     partitioned : { {} },
     files : { <<MissingFile, MissingFile>>,
               <<OldRulesFile, OldLegacyFile>> },
     cli : BOOLEAN]

\* The commands that can fail in each stretch of the run, and when the
\* kernel populates phys_switch_id.
FailsOf(names) == {{}} \cup { {c} : c \in names }

StartFails == FailsOf({"load_kmods", "vdpa_dev_list"})

BeginFails ==
    FailsOf({"link_promisc", "link_up", "udev_reload", "eswitch_inline_mode",
             "eswitch_mode_switchdev", "hw_tc_offload"})

EndFails ==
    FailsOf({"driver_unbind", "vdpa_dev_add", "restorecon", "udev_reload",
             "flow_steering", "eswitch_inline_mode",
             "eswitch_mode_switchdev", "hw_tc_offload", "ifup"})
      \cup {{"flow_steering", "hw_tc_offload"}}

FinishFails ==
    FailsOf({"update_sriov_bind_pcis_map", "configure_sriov_bind_service",
             "bind_vfs", "udev_trigger", "restart_openvswitch",
             "restart_ifdown", "restart_ifup"})

ReadyInRun == {0, 1}

\* A run of configure_sriov_pf.
InitPf ==
    /\ \E host \in OnePfHosts \cup TwoPfHosts :
         /\ numvfs = host.numvfs
         /\ rules_file = host.files[1]
         /\ run = [NoRun EXCEPT !.step = "entry", !.map = host.map,
                                !.cli = host.cli, !.restart = host.cli,
                                !.mlnx = host.mlnx,
                                !.partitioned = host.partitioned,
                                !.legacy = host.files[2],
                                !.numvfs0 = host.numvfs,
                                !.files0 = host.files]
    /\ vf_queue = <<>>
    /\ vf_to_pf = EmptyMap
    /\ emitted = 0
    /\ pc = "idle"
    /\ call = InitCall
    /\ last = NoCall
    /\ vfrun = NoVfRun

NextPf ==
    \/ \E fails \in StartFails : PfStart(fails)
    \/ \E fails \in BeginFails, ready \in ReadyInRun : PfBegin(fails, ready)
    \/ WaitReceive
    \/ WaitTimeout
    \/ \E fails \in EndFails, ready \in ReadyInRun : PfEnd(fails, ready)
    \/ \E fails \in FinishFails : PfFinish(fails)
    \/ MonitorPush

SpecPf == InitPf /\ [][NextPf]_vars

\* The VF descriptors of a map: with or without each rate key, a zero or a
\* non-zero rate, and some sets of the other optional keys.
Rates == {Absent, 0, 5}

FieldSets ==
    { {}, {"macaddr", "vlan_id"}, {"trust", "spoofcheck"},
      {"macaddr", "vlan_id", "spoofcheck", "state", "trust", "promisc",
       "driver"} }

VfItems == [fields : FieldSets, max_tx_rate : Rates, min_tx_rate : Rates]

VfMaps ==
    { <<a>> : a \in VfItems }
      \cup { <<a, b>> : a \in VfItems, b \in { c \in VfItems : c.fields = {} } }

\* The commands that fail on the host while one descriptor is applied.
VfFails ==
    SUBSET {"max_tx_rate", "min_tx_rate", "trust"}
      \cup FailsOf({"mac", "vlan", "spoofchk", "state", "promisc",
                    "driver_override"})

\* A run of configure_sriov_vf.
InitVf ==
    /\ numvfs = [pf \in PFs |-> 0]
    /\ vf_queue = <<>>
    /\ vf_to_pf = EmptyMap
    /\ emitted = 0
    /\ pc = "idle"
    /\ call = InitCall
    /\ rules_file = MissingFile
    /\ last = NoCall
    /\ run = NoRun
    /\ \E map \in VfMaps :
         vfrun = [NoVfRun EXCEPT !.step = "loop", !.map = map, !.i = 1]

NextVf == \E fails \in VfFails : VfItem(fails)

SpecVf == InitVf /\ [][NextVf]_vars

\* The monitor thread and set_numvfs calls for positive targets, on PFs
\* without VFs.
InitQueue ==
    /\ numvfs = [pf \in PFs |-> 0]
    /\ vf_queue = <<>>
    /\ vf_to_pf = EmptyMap
    /\ emitted = 0
    /\ pc = "idle"
    /\ call = InitCall
    /\ rules_file = MissingFile
    /\ last = NoCall
    /\ run = NoRun
    /\ vfrun = NoVfRun

NextQueue ==
    \/ \E ifname \in PFs, n \in 1..MaxVfs : QSetNumvfs(ifname, n)
    \/ \E device \in Devices : QPut(device)
    \/ QGet
    \/ WaitTimeout

SpecQueue == InitQueue /\ [][NextQueue]_vars

\* configure_switchdev for each PF, with every outcome of its commands and
\* of the uplink poll.
SwitchdevFails ==
    FailsOf({"eswitch_inline_mode", "eswitch_mode_switchdev",
             "hw_tc_offload"})

InitSwitchdev == InitQueue

NextSwitchdev ==
    \E pf_name \in PFs, fails \in SwitchdevFails, ready \in 0..MAX_RETRIES :
        SwitchdevCall(pf_name, fails, ready)

SpecSwitchdev == InitSwitchdev /\ [][NextSwitchdev]_vars

\* main without --numvfs: configure_sriov_pf, then configure_sriov_vf for a
\* map with one VF descriptor.
MainVfMaps ==
    { << [fields |-> {"macaddr", "vlan_id"}, max_tx_rate |-> 5,
          min_tx_rate |-> Absent] >> }

MainVfFails == FailsOf({"vlan"})

NextMain ==
    \/ NextPf
    \/ \E map \in MainVfMaps : MainConfigureVf(map)
    \/ \E fails \in MainVfFails : VfItem(fails)

SpecMain == InitPf /\ [][NextMain]_vars

-----------------------------------------------------------------------------
(* Properties of set_numvfs.                                               *)

\* A step that is one call of set_numvfs, from its entry to its return, its
\* raise or its entry into the wait loop.
SetNumvfsStep == pc = "idle" /\ call' # call

\* C1: set_numvfs called when the count it reads already equals the target
\* writes nothing to the attribute, does not invoke the synchronizer (no
\* event is consumed, no link recorded) and returns that count, whatever
\* the count is.
C1_EqualCountIsNoOp ==
    [][ (SetNumvfsStep /\ call'.curr = call'.numvfs)
        => /\ pc' = "idle"
           /\ call'.result = "ok"
           /\ call'.ret = call'.curr
           /\ call'.write = "none"
           /\ ~call'.synced
           /\ UNCHANGED <<numvfs, vf_queue, vf_to_pf>> ]_vars

C1_Witness ==
    /\ pc = "idle" /\ call.result = "ok"
    /\ call.curr = call.numvfs /\ call.curr = MaxVfs

\* C2: set_numvfs called when the count it reads is neither zero nor the
\* target returns that count without writing and without raising, and the
\* kernel's count is what it was.
C2_NonZeroCountIsKept ==
    [][ (SetNumvfsStep /\ call'.curr > 0 /\ IsInt(call'.numvfs)
         /\ call'.curr # call'.numvfs)
        => /\ pc' = "idle"
           /\ call'.result = "ok"
           /\ call'.ret = call'.curr
           /\ call'.write = "none"
           /\ ~call'.synced
           /\ numvfs' = numvfs ]_vars

C2_Witness ==
    /\ pc = "idle" /\ call.result = "ok"
    /\ call.curr > 0 /\ call.numvfs \in 0..MaxVfs
    /\ call.curr # call.numvfs /\ call.ret = call.curr
    /\ numvfs[call.ifname] = call.curr

\* C3: once set_numvfs has written the target, it returns normally exactly
\* when the count read after the wait is the target, and raises otherwise;
\* the events the synchronizer tallied play no part.
C3_VerifyByReread ==
    (call.write = "done" /\ pc = "idle")
    => /\ call.result \in {"ok", "raise"}
       /\ (call.result = "ok") <=> (call.reread = call.numvfs)
       /\ (call.result = "ok") => (call.ret = call.numvfs)

\* The synchronizer timed out short of the target and the call succeeded.
C3_Witness ==
    /\ pc = "idle" /\ call.write = "done"
    /\ call.timedout /\ call.vf_count < call.numvfs
    /\ call.result = "ok" /\ call.ret = call.numvfs

\* C4: a second set_numvfs call with the same non-zero target, after a first
\* one that wrote it from a zero count and returned, and reading the count
\* that call returned, writes nothing, consumes no event, returns the same
\* count and leaves the kernel's count as it was.
C4_SecondCallIsNoOp ==
    [][ (SetNumvfsStep /\ call'.again)
        => /\ pc' = "idle"
           /\ call'.result = "ok"
           /\ call'.ret = call.ret
           /\ call'.ret = call'.numvfs
           /\ call'.write = "none"
           /\ ~call'.synced
           /\ UNCHANGED <<numvfs, vf_queue, vf_to_pf>> ]_vars

C4_Witness ==
    /\ pc = "idle" /\ call.again /\ call.result = "ok"
    /\ call.numvfs = MaxVfs /\ call.ret = MaxVfs
    /\ numvfs[call.ifname] = MaxVfs

-----------------------------------------------------------------------------
(* Properties of _wait_for_vf_creation.                                    *)

\* What holds of a wait while it runs and once it has returned.
TallyIsExact ==
    call.synced
    => /\ call.added = call.matched \ call.known0
       /\ call.vf_count = Cardinality(call.added)
       /\ \A v \in call.added :
             v \in DOMAIN vf_to_pf /\ vf_to_pf[v].pf = call.ifname
       /\ pc = "idle" =>
             /\ call.timedout <=> call.vf_count < call.numvfs
             /\ ~call.timedout => Cardinality(call.added) = call.numvfs

\* C8: the links the synchronizer records in vf_to_pf during one wait are
\* the distinct VF names of the events it received for its PF that were not
\* recorded before, each recorded for that PF, and the count is their
\* number; it returns without a timeout exactly when that count reached the
\* target N, and it returns early, having recorded the k < N it received,
\* only when a receive found the queue empty.
C8_SynchronizerTally ==
    /\ []TallyIsExact
    /\ [][ (pc = "wait" /\ pc' = "idle" /\ call'.timedout)
           => /\ vf_queue = <<>>
              /\ vf_to_pf' = vf_to_pf
              /\ call'.vf_count = call.vf_count
              /\ call'.vf_count < call'.numvfs ]_vars

\* Target 2, one event for the PF, then silence: it returned with one link.
C8_Witness ==
    /\ pc = "idle" /\ call.synced /\ call.timedout
    /\ call.numvfs = 2 /\ Cardinality(call.added) = 1
    /\ Cardinality(call.matched) = 1

\* C9: with finitely many events delivered, a wait that has begun ends:
\* the count reached the target, or one receive found the queue empty.
C9_WaitReturns ==
    (pc = "wait")
    ~> (pc = "idle" /\ (call.timedout \/ call.vf_count = call.numvfs))

\* Every event of the run was delivered and consumed, and the wait ended.
C9_Witness ==
    /\ pc = "idle" /\ call.synced /\ emitted = MaxEvents /\ vf_queue = <<>>
    /\ (call.timedout \/ call.vf_count = call.numvfs)

\* C10: an entry of vf_to_pf is never overwritten or removed, and receiving
\* an event whose VF name is already recorded changes neither the map nor
\* the count.
C10_FirstObservationWins ==
    [][ /\ \A v \in DOMAIN vf_to_pf :
              v \in DOMAIN vf_to_pf' /\ vf_to_pf'[v] = vf_to_pf[v]
        /\ (/\ pc = "wait" /\ vf_queue # <<>>
            /\ vf_queue' = Tail(vf_queue)
            /\ Basename(Head(vf_queue).device) \in DOMAIN vf_to_pf)
           => /\ vf_to_pf' = vf_to_pf
              /\ call'.vf_count = call.vf_count ]_vars

\* An event for a VF name already recorded for another PF was received.
C10_Witness ==
    /\ call.synced /\ call.log = "already_created"
    /\ \E v \in DOMAIN vf_to_pf : vf_to_pf[v].pf # call.ifname

-----------------------------------------------------------------------------
(* Properties of add_udev_rule.                                            *)

\* The lines of the rules file, and those a pattern is found in.
FileLines == SplitLines(rules_file.data)

MatchingLines(lines, pattern) ==
    {i \in 1..Len(lines) : IsSubstr(pattern, lines[i])}

LastPattern == EffectivePattern(last.data, last.pattern)

\* C5: after the same (line, file, pattern) was upserted twice in a row,
\* exactly one line of the file contains the pattern, the first call
\* returned changed=true and the second changed=false.
C5_UpsertTwice ==
    last.repeat
    => /\ last.prev_changed
       /\ ~last.changed
       /\ Cardinality(MatchingLines(FileLines, LastPattern)) = 1

\* C6: after any sequence of add_udev_rule calls from a missing file,
\* exactly one line of the file contains the pattern of the latest call.
C6_OneLinePerPattern ==
    last.n > 0
    => Cardinality(MatchingLines(FileLines, LastPattern)) = 1

\* The lines the file must hold after a replacement: every line of the old
\* file in its place, the ones containing the pattern replaced by the new
\* rule text.
RECURSIVE ReplacedFrom(_, _, _, _)
ReplacedFrom(old, i, pattern, text) ==
    IF i > Len(old)
    THEN <<>>
    ELSE (IF IsSubstr(pattern, old[i])
          THEN SplitLines(text \o <<NL>>)
          ELSE <<old[i]>>)
         \o ReplacedFrom(old, i + 1, pattern, text)

\* C7: when add_udev_rule replaces the lines containing the pattern, every
\* other line stays in the file verbatim and at its place among the lines.
C7_ReplaceKeepsOtherLines ==
    last.branch = "replace"
    => FileLines = ReplacedFrom(SplitLines(last.before.data), 1,
                                LastPattern, Strip(last.data))

\* [A, B, C] with the pattern in B alone became [A, B', C].
C7_Witness ==
    /\ last.branch = "replace"
    /\ LET old == SplitLines(last.before.data)
       IN  /\ Len(old) = 3 /\ Len(FileLines) = 3
           /\ MatchingLines(old, LastPattern) = {2}
           /\ FileLines[1] = old[1]
           /\ FileLines[2] # old[2]
           /\ FileLines[3] = old[3]

\* The branches of add_udev_rule that open the file for writing.
WriteBranches == {"create", "replace", "append"}

\* C24: a call of add_udev_rule that returned True took one of the three
\* branches that write the file and reloaded the rule database (once, at
\* the end of the call); a call that returned False took none of them, left
\* the file as it was, content included, and did not reload.
C24_ReloadIffWritten ==
    last.n > 0
    => IF last.changed
       THEN /\ last.branch \in WriteBranches
            /\ rules_file.exists
            /\ last.reload
       ELSE /\ last.branch \notin WriteBranches
            /\ rules_file = last.before
            /\ ~last.reload

\* A call that appended and reloaded was followed by one that found its
\* rule in the file.
C24_Witness ==
    /\ last.n > 1
    /\ last.prev_changed
    /\ ~last.changed
    /\ rules_file = last.before
    /\ Len(FileLines) > 2

-----------------------------------------------------------------------------
(* Properties of the event queue.                                          *)

\* The events got so far, followed by those still queued, are the events
\* put so far: each is got at most once, in the order they were put, and
\* none is dropped.
QueueIsFifo == run.received \o vf_queue = run.pushed

\* The wait of the current call has returned.
WaitReturned == pc = "idle" /\ call.synced

\* C17 as stated: the queue is FIFO and loses nothing, and when the wait of
\* a call returns, it has received every event that was put between the
\* call's VF-count write and the wait's first receive.
C17_WaitReceivesEveryEarlyEvent ==
    /\ QueueIsFifo
    /\ WaitReturned => Len(run.received) >= run.w1

\* C17, amended: the queue is FIFO and loses nothing, and when the wait of
\* a call returns, it has received every event that was put between the
\* call's VF-count write and the wait's first receive, unless it returned
\* because its tally reached the target: then the events it did not get
\* are still queued, in order, for the next wait.
C17_WaitReceivesEarlyEventsUntilTarget ==
    /\ QueueIsFifo
    /\ WaitReturned =>
          \/ Len(run.received) >= run.w1
          \/ call.vf_count = call.numvfs

C17_Witness ==
    /\ WaitReturned
    /\ run.first
    /\ run.w1 > run.w0
    /\ Len(run.received) >= run.w1
    /\ Len(run.received) = 2
    /\ run.received[1] # run.received[2]

-----------------------------------------------------------------------------
(* Properties of configure_sriov_pf.                                       *)

\* The descriptors of the map that name a PF.
ItemsOf(pf_name) ==
    { run.map[k] : k \in { j \in 1..Len(run.map) :
                             run.map[j].name = pf_name } }

\* The positions of the run's command log at which command c was issued
\* for a PF.
Issued(c, pf_name) ==
    { k \in 1..Len(run.cmds) :
        run.cmds[k].cmd = c /\ run.cmds[k].pf = pf_name }

\* The positions at which a VF-count write was issued for a vDPA PF on a
\* Mellanox NIC.
VdpaWrites ==
    { k \in 1..Len(run.cmds) :
        /\ run.cmds[k].cmd = "write_numvfs"
        /\ IsMellanoxInterface(run.cmds[k].pf)
        /\ \E item \in ItemsOf(run.cmds[k].pf) : item.vdpa }

\* C11: in every run of configure_sriov_pf, a VF-count write for a vDPA PF
\* on a Mellanox NIC comes after the PF's eswitch was set to switchdev
\* mode, then its uplink representor was read as ready, then its
\* hw-tc-offload was enabled, in this order.
C11_SwitchdevBeforeVdpaWrite ==
    \A k \in VdpaWrites :
        LET pf_name == run.cmds[k].pf
        IN  \E a \in Issued("eswitch_mode_switchdev", pf_name),
               b \in Issued("read_phys_switch_id", pf_name),
               c \in Issued("hw_tc_offload", pf_name) :
              /\ a < b /\ b < c /\ c < k
              /\ run.cmds[a].ok /\ run.cmds[b].ok /\ run.cmds[c].ok

C11_Witness ==
    /\ run.step = "done"
    /\ \E k \in VdpaWrites : run.cmds[k].ok

\* The positions at which the udev trigger command was issued.
Triggered == Issued("udev_trigger", "all")

\* The commands configure_sriov_pf issues after its loop over the map.
AfterLoopCmds ==
    { "update_sriov_bind_pcis_map", "configure_sriov_bind_service",
      "bind_vfs", "udev_trigger", "monitor_stop", "restart_openvswitch",
      "restart_ifdown", "restart_ifup" }

\* C13: in a run of configure_sriov_pf the udev trigger command is issued
\* at most once, no command of the PF loop is issued after it, and it is
\* issued only if some rule upsert of the run returned True.
C13_TriggerOnceAfterLoopIfChanged ==
    /\ Cardinality(Triggered) <= 1
    /\ \A k \in Triggered :
         /\ run.step \in {"done", "raised"}
         /\ \A j \in (k + 1)..Len(run.cmds) :
              run.cmds[j].cmd \in AfterLoopCmds \ {"udev_trigger"}
         /\ run.changed # {}

C13_Witness ==
    /\ run.step = "done"
    /\ \E k \in Triggered : run.cmds[k].ok
    /\ Len(run.map) = 2
    /\ Cardinality(run.changed) > 1

\* The five callers of add_udev_rule.
RuleCmds ==
    { "rule_legacy", "rule_unmanage", "rule_pf", "rule_vf_rep",
      "rule_vdpa_rep" }

\* The positions at which a rule upsert changed its rules file.
RuleChanges ==
    { k \in 1..Len(run.cmds) :
        run.cmds[k].cmd \in RuleCmds /\ run.cmds[k].ok }

\* C14: when a run of configure_sriov_pf that returns has changed a rules
\* file by any of its rule upserts, it has issued the udev trigger command
\* once, after the last of them.
C14_ChangeImpliesTrigger ==
    (run.step = "done" /\ RuleChanges # {})
        => /\ Cardinality(Triggered) = 1
           /\ \A t \in Triggered, k \in RuleChanges : k < t

\* A step that is the loop's pass over the item it stands at, whose PF
\* already holds its target VF count.
ConvergedPfStep ==
    /\ run.step = "loop"
    /\ numvfs[run.map[run.i].name] = run.map[run.i].numvfs
    /\ (run'.step # run.step \/ run'.i # run.i)

\* C15: the loop's pass over a PF descriptor whose VF count already equals
\* its target issues no command at all (no link, eswitch, devlink, unbind
\* or vDPA command and no VF-count write), upserts no rule, and leaves the
\* rules files, the VF count, trigger_udev_rule and dpdk_vfs_pcis_list as
\* they were.
C15_ConvergedPfIsSkipped ==
    [][ConvergedPfStep =>
          /\ run'.cmds = run.cmds
          /\ rules_file' = rules_file
          /\ run'.legacy = run.legacy
          /\ numvfs' = numvfs
          /\ call' = call
          /\ run'.trigger = run.trigger
          /\ run'.dpdk = run.dpdk
          /\ run'.changed = run.changed]_vars

C15_Witness ==
    /\ run.step = "done"
    /\ Len(run.map) = 2
    /\ numvfs["pf0"] = run.map[1].numvfs
    /\ \A k \in 1..Len(run.cmds) :
         run.cmds[k].pf = "pf0" =>
            run.cmds[k].cmd \in {"restart_ifdown", "restart_ifup"}
    /\ \E k \in Issued("write_numvfs", "pf1") : run.cmds[k].ok

\* C16: every VF-count write of a run comes after the monitor was started,
\* and a run that has ended, by returning or by raising, has stopped the
\* monitor as many times as it started it.
C16_MonitorBracketsRun ==
    /\ \A pf_name \in PFs :
          \A k \in Issued("write_numvfs", pf_name) :
             \E m \in Issued("monitor_start", "all") : m < k
    /\ (run.step \in {"done", "raised"}
          => Cardinality(Issued("monitor_stop", "all"))
                = Cardinality(Issued("monitor_start", "all")))

\* The commands of configure_switchdev.
SwitchdevCmds ==
    { "eswitch_inline_mode", "eswitch_mode_switchdev",
      "read_phys_switch_id", "hw_tc_offload" }

\* The positions at which configure_switchdev issued something for a PF.
SwitchdevIssued(pf_name) ==
    { k \in 1..Len(run.cmds) :
        run.cmds[k].cmd \in SwitchdevCmds /\ run.cmds[k].pf = pf_name }

\* Scenario A: the map holds one PF descriptor, legacy mode without vDPA,
\* target 2, and the PF has no VFs when the run starts.
ScenarioA ==
    /\ run.step # "none"
    /\ Len(run.map) = 1
    /\ run.map[1].link_mode = "legacy"
    /\ ~run.map[1].vdpa
    /\ run.map[1].numvfs = 2
    /\ run.numvfs0[run.map[1].name] = 0

\* In scenario A, link up comes before the VF-count write, a run that
\* returns has done both, and no switchdev command is issued.
ScenarioALinkThenWrite ==
    LET pf_name == run.map[1].name
    IN  /\ \A k \in Issued("write_numvfs", pf_name) :
              \E u \in Issued("link_up", pf_name) : u < k /\ run.cmds[u].ok
        /\ (run.step = "done"
              => \E k \in Issued("write_numvfs", pf_name) : run.cmds[k].ok)
        /\ SwitchdevIssued(pf_name) = {}

\* C18 as stated: scenario A produces link up followed by the VF-count
\* write, issues no switchdev command, and creates no rules file.
C18_ScenarioACreatesNoRuleFile ==
    ScenarioA =>
        /\ ScenarioALinkThenWrite
        /\ (rules_file.exists => run.files0[1].exists)
        /\ (run.legacy.exists => run.files0[2].exists)

\* C18, amended: scenario A produces link up followed by the VF-count
\* write, issues no switchdev command, and leaves the primary rules file
\* as it found it; unless a VF descriptor names the PF, the legacy rules
\* file holds the PF's rule for 2 VFs before the write is issued (the file
\* is created when it was missing); if one does, the legacy rules file is
\* left as found too.
C18_ScenarioAUpsertsLegacyRule ==
    ScenarioA =>
        LET pf_name == run.map[1].name
        IN  /\ ScenarioALinkThenWrite
            /\ rules_file = run.files0[1]
            /\ IF IsPartitionedPf(pf_name)
               THEN run.legacy = run.files0[2]
               ELSE Issued("write_numvfs", pf_name) # {}
                      => /\ run.legacy.exists
                         /\ InList(LegacyRule(pf_name, 2),
                                   SplitLines(run.legacy.data))

C18_Witness ==
    /\ ScenarioA
    /\ run.step = "done"
    /\ \E k \in Issued("write_numvfs", "pf0") : run.cmds[k].ok
    /\ ~run.files0[2].exists
    /\ run.legacy.exists

\* C19: no command of configure_switchdev (eswitch inline-mode or mode,
\* uplink poll read, hw-tc-offload) is ever issued for a PF whose
\* descriptor has a link_mode other than switchdev, whatever its vdpa flag.
C19_SwitchdevOnlyInSwitchdevMode ==
    \A k \in 1..Len(run.map) :
        run.map[k].link_mode # "switchdev"
            => SwitchdevIssued(run.map[k].name) = {}

\* The positions at which the uplink poll read phys_switch_id of a PF.
Reads(pf_name) == Issued("read_phys_switch_id", pf_name)

\* C20: for every PF, the uplink poll reads phys_switch_id only after the
\* eswitch mode was set to switchdev, at most 10 times, and not again
\* after a populated read; if no read was populated there were 10 of them
\* and the call raised without issuing anything more; hw-tc-offload is
\* issued only after a populated read.
C20_UplinkPollIsBounded ==
    \A pf_name \in PFs :
        /\ Cardinality(Reads(pf_name)) <= 10
        /\ \A r \in Reads(pf_name) :
              /\ \E m \in Issued("eswitch_mode_switchdev", pf_name) :
                    m < r /\ run.cmds[m].ok
              /\ run.cmds[r].ok => \A q \in Reads(pf_name) : q <= r
        /\ (Reads(pf_name) # {} /\ \A r \in Reads(pf_name) : ~run.cmds[r].ok)
              => /\ Cardinality(Reads(pf_name)) = 10
                 /\ run.step = "raised"
                 /\ run.cmds[Len(run.cmds)].cmd = "read_phys_switch_id"
        /\ \A h \in Issued("hw_tc_offload", pf_name) :
              \E r \in Reads(pf_name) : r < h /\ run.cmds[r].ok

C20_Witness ==
    \E pf_name \in PFs :
        /\ Cardinality(Reads(pf_name)) = 10
        /\ \E r \in Reads(pf_name), h \in Issued("hw_tc_offload", pf_name) :
              run.cmds[r].ok /\ r < h /\ run.cmds[h].ok

\* The positions at which the DPDK PCI-address list was handed to the
\* binding subsystem.
Persisted ==
    Issued("update_sriov_bind_pcis_map", "all") \cup Issued("bind_vfs", "all")

\* C22: a run of configure_sriov_pf that returns with a non-empty
\* dpdk_vfs_pcis_list has handed the list to the binding subsystem
\* (update_sriov_bind_pcis_map, or bind_vfs when run from the CLI) after
\* the loop, whatever the order of the PFs and whatever the last PF was.
C22_DpdkListIsPersisted ==
    (run.step = "done" /\ run.dpdk # <<>>)
        => \E k \in Persisted :
              /\ run.cmds[k].ok
              /\ \A j \in 1..Len(run.cmds) :
                    run.cmds[j].cmd = "driver_unbind" => j < k

\* Every position of a comes before every position of b.
Before(a, b) == \A x \in a, y \in b : x < y

\* The PFs of the map that are in switchdev mode without vDPA on a Mellanox
\* NIC.
SwitchdevDpdkPfs ==
    { pf_name \in PFs :
        /\ IsMellanoxInterface(pf_name)
        /\ ItemsOf(pf_name) # {}
        /\ \A item \in ItemsOf(pf_name) :
              item.link_mode = "switchdev" /\ ~item.vdpa }

\* The steps of the claim for a PF, in the claimed order: the positions of
\* each in the log.
StepsOf(pf_name) ==
    << Issued("write_numvfs", pf_name), Issued("driver_unbind", pf_name),
       Issued("rule_unmanage", pf_name), Issued("rule_pf", pf_name),
       Issued("rule_vf_rep", pf_name), Issued("flow_steering", pf_name),
       Issued("eswitch_mode_switchdev", pf_name), Reads(pf_name),
       Issued("hw_tc_offload", pf_name) >>

\* C23: for a non-vDPA switchdev PF on a Mellanox NIC, the commands of a run
\* of configure_sriov_pf stand in the log in this order: the VF-count write,
\* the driver unbinds, the representor-unmanage upsert, the PF-name upsert,
\* the representor-rename upsert, the flow-steering set, the eswitch mode
\* switchdev set, the uplink poll reads, the hw-tc-offload enable.  Each
\* step but the unbinds and the reads is issued at most once, and once
\* hw-tc-offload is issued every step before it was: the write if the PF
\* had no VFs, one unbind per VF of the PF, each upsert and the
\* flow-steering set once, the mode set with success, a populated read.
C23_SwitchdevStepOrder ==
    \A pf_name \in SwitchdevDpdkPfs :
        LET steps == StepsOf(pf_name)
        IN  /\ \A a \in 1..Len(steps), b \in 1..Len(steps) :
                  a < b => Before(steps[a], steps[b])
            /\ \A a \in {1, 3, 4, 5, 6, 7, 9} : Cardinality(steps[a]) <= 1
            /\ steps[9] # {} =>
                  /\ \A a \in {3, 4, 5, 6, 7} : Cardinality(steps[a]) = 1
                  /\ run.numvfs0[pf_name] = 0
                        => \E w \in steps[1] : run.cmds[w].ok
                  /\ Cardinality(steps[2]) = numvfs[pf_name]
                  /\ \A u \in steps[2] : run.cmds[u].ok
                  /\ \A e \in steps[7] : run.cmds[e].ok
                  /\ \E r \in steps[8] : run.cmds[r].ok

C23_Witness ==
    /\ run.step = "done"
    /\ "pf0" \in SwitchdevDpdkPfs
    /\ \E w \in Issued("write_numvfs", "pf0") : run.cmds[w].ok
    /\ Cardinality(Issued("driver_unbind", "pf0")) = 2
    /\ \E f \in Issued("flow_steering", "pf0") : ~run.cmds[f].ok
    /\ \E h \in Issued("hw_tc_offload", "pf0") : run.cmds[h].ok

\* The elements of a sequence.
Range(seq) == { seq[k] : k \in 1..Len(seq) }

\* The lines the primary rules file holds when the vDPA representor rules
\* of a PF are upserted: those the run found in the file, the header, and
\* the three rules upserted for the PF just before.
LinesBeforeVdpaRules(pf_name) ==
    Range(SplitLines(run.files0[1].data))
        \cup {Header, UnmanageRule, PfRule(pf_name), VfRepRule(pf_name)}

\* C25: once the vDPA representor rules of a PF were upserted, every line
\* the primary rules file held before that upsert is still one of its
\* lines, whatever vf_to_pf held (nothing, after a wait that timed out,
\* included).
C25_VdpaRulesKeepOtherLines ==
    \A pf_name \in PFs :
        Issued("rule_vdpa_rep", pf_name) # {}
            => LinesBeforeVdpaRules(pf_name)
                  \subseteq Range(SplitLines(rules_file.data))

\* The VFs recorded in vf_to_pf that a vDPA representor rule of the
\* primary rules file names.
VdpaRuleVfs ==
    { vf \in DOMAIN vf_to_pf :
        InList(<<"V", VfChar(vf)>>, SplitLines(rules_file.data)) }

\* C26: a VF named by a vDPA representor rule of the rules file is
\* recorded in vf_to_pf for a PF whose vDPA representor rules the run has
\* upserted: no such rule is written for a VF of a PF configured without
\* vDPA.
C26_VdpaRulesNameOwnVfs ==
    \A vf \in VdpaRuleVfs :
        Issued("rule_vdpa_rep", vf_to_pf[vf].pf) # {}

-----------------------------------------------------------------------------
(* Properties of configure_sriov_vf.                                       *)

\* The positions of the log at which a rate-limit command with a non-zero
\* rate failed.
FailedNonZeroRate ==
    { k \in 1..Len(vfrun.cmds) :
        /\ vfrun.cmds[k].cmd \in {"max_tx_rate", "min_tx_rate"}
        /\ ~vfrun.cmds[k].ok
        /\ vfrun.cmds[k].value # 0 }

-----------------------------------------------------------------------------
(* Properties of main: configure_sriov_pf followed by configure_sriov_vf.  *)

\* The positions of the log at which a command failed whose failure is
\* raised: any command but the flow-steering one, whose failure is only
\* logged (a rule upsert and a poll read are logged with their result, which
\* is no failure).
FatalFailures ==
    { k \in 1..Len(run.cmds) :
        /\ ~run.cmds[k].ok
        /\ run.cmds[k].cmd
              \notin RuleCmds \cup {"flow_steering", "read_phys_switch_id"} }

\* The PFs whose uplink poll ran out of retries.
UplinkTimeouts ==
    { pf_name \in PFs :
        Cardinality({ r \in Reads(pf_name) : ~run.cmds[r].ok })
            = MAX_RETRIES }

\* The set_numvfs call of the item the loop stands at has raised.
NumvfsRaised ==
    run.step = "numvfs" /\ pc = "idle" /\ call.result = "raise"

\* An exception is leaving configure_sriov_pf, or has left it.
Raising == run.step = "raised" \/ NumvfsRaised

\* A fatal error ends the run at once: a failed command or the last read of
\* a timed-out poll is the last entry of the log, with the exception on its
\* way out.
FatalErrorEndsRun ==
    /\ \A k \in FatalFailures :
          k = Len(run.cmds) /\ Raising
    /\ \A pf_name \in UplinkTimeouts :
          /\ run.step = "raised"
          /\ run.cmds[Len(run.cmds)] = Cmd("read_phys_switch_id", pf_name,
                                            FALSE)
    /\ (Raising => vfrun = NoVfRun)

\* C21: a failed command other than the flow-steering one, or an uplink
\* poll out of retries, is the last thing configure_sriov_pf issues and the
\* run ends raised; once set_numvfs has raised or the run has ended raised,
\* no command is issued any more (none for a later PF, no udev trigger, no
\* bind, no restart), no rules file changes, and configure_sriov_vf is not
\* started.
C21_FatalErrorsPropagate ==
    /\ []FatalErrorEndsRun
    /\ [][Raising
            => /\ run'.step \in {run.step, "raised"}
               /\ run'.cmds = run.cmds
               /\ run'.legacy = run.legacy
               /\ rules_file' = rules_file
               /\ numvfs' = numvfs
               /\ vfrun' = vfrun]_vars

C21_Witness ==
    /\ run.step = "raised"
    /\ Len(run.map) = 2
    /\ \E k \in FatalFailures : run.cmds[k].pf = "pf0"
    /\ \E k \in 1..Len(run.cmds) : run.cmds[k].cmd \in RuleCmds
    /\ \A k \in 1..Len(run.cmds) : run.cmds[k].pf # "pf1"
    /\ run.observer = "started"

====
